---- MODULE Spec2Model ----
(***************************************************************************)
(* picbasket: discover -> hash -> resolve -> migrate pipeline and its      *)
(* persisted index (picbasket/picbasket.py, picbasket/cli.py).             *)
(*                                                                         *)
(* Strings (paths, templates) are sequences of one-character strings, so   *)
(* that str.startswith, os.path.join, os.path.splitext, time.strftime and  *)
(* str.format are computed character by character as Python computes them. *)
(* An image record [f, res, ts] of the source is the record                *)
(* [f |-> path, res |-> <<width, height>>, ts |-> epoch seconds].          *)
(* A dict is a sequence of [h |-> key, imgs |-> bucket] in insertion       *)
(* order.                                                                  *)
(***************************************************************************)
EXTENDS Integers, Sequences, FiniteSets, TLC

(***************************************************************************)
(* Python str / os.path primitives                                         *)
(***************************************************************************)

\* str.startswith(prefix)
StartsWith(s, prefix) ==
    /\ Len(prefix) <= Len(s)
    /\ SubSeq(s, 1, Len(prefix)) = prefix

\* str.endswith(suffix)
EndsWith(s, suffix) ==
    /\ Len(suffix) <= Len(s)
    /\ SubSeq(s, Len(s) - Len(suffix) + 1, Len(s)) = suffix

\* index of the last occurrence of character c in s, 0 when there is none
RECURSIVE RFind(_, _, _)
RFind(s, c, i) ==
    IF i = 0 THEN 0
    ELSE IF s[i] = c THEN i
    ELSE RFind(s, c, i - 1)

\* os.path.basename: what follows the last "/"
Basename(p) == SubSeq(p, RFind(p, "/", Len(p)) + 1, Len(p))

\* number of leading "." characters of s from position i
RECURSIVE LeadingDots(_, _)
LeadingDots(s, i) ==
    IF i <= Len(s) /\ s[i] = "." THEN 1 + LeadingDots(s, i + 1) ELSE 0

\* os.path.splitext of a basename: the extension starts at the last "."
\* unless that "." belongs to the leading dots of the name
SplitextAt(b) ==
    LET i == RFind(b, ".", Len(b)) IN
    IF i = 0 \/ i <= LeadingDots(b, 1) THEN Len(b) + 1 ELSE i

SplitextRoot(b) == SubSeq(b, 1, SplitextAt(b) - 1)

SplitextExt(b) == SubSeq(b, SplitextAt(b), Len(b))

\* os.path.join(a, b) on a POSIX host
PathJoin(a, b) ==
    IF Len(b) > 0 /\ b[1] = "/" THEN b
    ELSE IF Len(a) = 0 \/ a[Len(a)] = "/" THEN a \o b
    ELSE a \o <<"/">> \o b

\* str(n) for a natural number n
Digit(d) == <<"0", "1", "2", "3", "4", "5", "6", "7", "8", "9">>[d + 1]

RECURSIVE IntToStr(_)
IntToStr(n) ==
    IF n < 10 THEN <<Digit(n)>>
    ELSE IntToStr(n \div 10) \o <<Digit(n % 10)>>

\* n printed in at least w digits, zero padded (%d, %m, %Y of strftime)
RECURSIVE ZeroPad(_, _)
ZeroPad(s, w) == IF Len(s) >= w THEN s ELSE ZeroPad(<<"0">> \o s, w)

(***************************************************************************)
(* time.localtime / time.strftime (C locale, fixed UTC offset tz)          *)
(***************************************************************************)

\* the civil date <<year, month, day>> of a day number counted from
\* 1970-01-01, proleptic Gregorian calendar (what gmtime computes)
CivilFromDays(days) ==
    LET z   == days + 719468
        era == z \div 146097
        doe == z - era * 146097
        yoe == (doe - doe \div 1460 + doe \div 36524 - doe \div 146096) \div 365
        doy == doe - (365 * yoe + yoe \div 4 - yoe \div 100)
        mp  == (5 * doy + 2) \div 153
        d   == doy - (153 * mp + 2) \div 5 + 1
        m   == IF mp < 10 THEN mp + 3 ELSE mp - 9
        y   == yoe + era * 400 + (IF m <= 2 THEN 1 ELSE 0)
    IN <<y, m, d>>

\* time.localtime(ts) in a zone tzoff seconds east of UTC: the fields
\* strftime reads
LocalTime(ts, tzoff) ==
    LET t   == ts + tzoff
        ymd == CivilFromDays(t \div 86400)
        sod == t % 86400
    IN [year |-> ymd[1], mon |-> ymd[2], mday |-> ymd[3],
        hour |-> sod \div 3600, min |-> (sod % 3600) \div 60, sec |-> sod % 60]

\* %B in the C locale
MonthName(m) ==
    << <<"J","a","n","u","a","r","y">>,
       <<"F","e","b","r","u","a","r","y">>,
       <<"M","a","r","c","h">>,
       <<"A","p","r","i","l">>,
       <<"M","a","y">>,
       <<"J","u","n","e">>,
       <<"J","u","l","y">>,
       <<"A","u","g","u","s","t">>,
       <<"S","e","p","t","e","m","b","e","r">>,
       <<"O","c","t","o","b","e","r">>,
       <<"N","o","v","e","m","b","e","r">>,
       <<"D","e","c","e","m","b","e","r">> >>[m]

\* one strftime conversion; a character that is no conversion of the model
\* is copied with its "%" as glibc does
Conversion(c, tm) ==
    CASE c = "Y" -> IntToStr(tm.year)
      [] c = "m" -> ZeroPad(IntToStr(tm.mon), 2)
      [] c = "B" -> MonthName(tm.mon)
      [] c = "d" -> ZeroPad(IntToStr(tm.mday), 2)
      [] c = "H" -> ZeroPad(IntToStr(tm.hour), 2)
      [] c = "M" -> ZeroPad(IntToStr(tm.min), 2)
      [] c = "S" -> ZeroPad(IntToStr(tm.sec), 2)
      [] c = "%" -> <<"%">>
      [] OTHER   -> <<"%", c>>

\* time.strftime(fmt, tm), scanning fmt from position i
RECURSIVE StrftimeFrom(_, _, _)
StrftimeFrom(fmt, tm, i) ==
    IF i > Len(fmt) THEN << >>
    ELSE IF fmt[i] = "%" /\ i < Len(fmt)
         THEN Conversion(fmt[i + 1], tm) \o StrftimeFrom(fmt, tm, i + 2)
    ELSE <<fmt[i]>> \o StrftimeFrom(fmt, tm, i + 1)

Strftime(fmt, tm) == StrftimeFrom(fmt, tm, 1)

(***************************************************************************)
(* str.format with the keyword arguments filename, resx, resy              *)
(***************************************************************************)

\* position of the first "}" of s at or after i, Len(s) + 1 when none
RECURSIVE FindClose(_, _)
FindClose(s, i) ==
    IF i > Len(s) THEN i
    ELSE IF s[i] = "}" THEN i
    ELSE FindClose(s, i + 1)

\* the value of a replacement field; the templates of the model name no
\* other field (Python raises KeyError for one)
FieldValue(name, kw) ==
    CASE name = <<"f","i","l","e","n","a","m","e">> -> kw.filename
      [] name = <<"r","e","s","x">> -> IntToStr(kw.resx)
      [] name = <<"r","e","s","y">> -> IntToStr(kw.resy)

\* template.format(**kw), scanning the template from position i:
\* "{{" and "}}" are literal braces, "{name}" is replaced by kw[name]
RECURSIVE FormatFrom(_, _, _)
FormatFrom(t, kw, i) ==
    IF i > Len(t) THEN << >>
    ELSE IF t[i] = "{" /\ i < Len(t) /\ t[i + 1] = "{"
         THEN <<"{">> \o FormatFrom(t, kw, i + 2)
    ELSE IF t[i] = "}" /\ i < Len(t) /\ t[i + 1] = "}"
         THEN <<"}">> \o FormatFrom(t, kw, i + 2)
    ELSE IF t[i] = "{"
         THEN LET j == FindClose(t, i + 1) IN
              FieldValue(SubSeq(t, i + 1, j - 1), kw) \o FormatFrom(t, kw, j + 1)
    ELSE <<t[i]>> \o FormatFrom(t, kw, i + 1)

Format(t, kw) == FormatFrom(t, kw, 1)

(***************************************************************************)
(* _name: the destination of a migrated image                              *)
(***************************************************************************)

\* _name formatting the timestamp in UTC (time.gmtime for time.localtime)
_name_gmtime(cfg, img, tzoff) ==
    LET template == Strftime(cfg.file_naming, LocalTime(img.ts, 0))
        base     == Basename(img.f)
        bn       == SplitextRoot(base)
        ext      == SplitextExt(base)
    IN PathJoin(cfg.output,
                Format(template, [filename |-> bn, resx |-> img.res[1],
                                  resy |-> img.res[2]]) \o ext)

\* _name(config, img) evaluated in a process whose local zone is tzoff
_name(cfg, img, tzoff) ==
    LET template == Strftime(cfg.file_naming, LocalTime(img.ts, tzoff))
        base     == Basename(img.f)
        bn       == SplitextRoot(base)
        ext      == SplitextExt(base)
    IN PathJoin(cfg.output,
                Format(template, [filename |-> bn, resx |-> img.res[1],
                                  resy |-> img.res[2]]) \o ext)

(***************************************************************************)
(* dict / defaultdict(list), kept in insertion order                       *)
(***************************************************************************)

\* position of key h in dict d, 0 when d has no such key
RECURSIVE KeyIndex(_, _, _)
KeyIndex(d, h, i) ==
    IF i > Len(d) THEN 0
    ELSE IF d[i].h = h THEN i
    ELSE KeyIndex(d, h, i + 1)

HasKey(d, h) == KeyIndex(d, h, 1) # 0

\* d[h] of a defaultdict(list): a missing key reads as the empty list
Get(d, h) == IF HasKey(d, h) THEN d[KeyIndex(d, h, 1)].imgs ELSE << >>

\* d[h] = v: an existing key keeps its place, a new key goes last
Put(d, h, v) ==
    IF HasKey(d, h)
    THEN [d EXCEPT ![KeyIndex(d, h, 1)] = [h |-> h, imgs |-> v]]
    ELSE Append(d, [h |-> h, imgs |-> v])

Keys(d) == {d[i].h : i \in 1..Len(d)}

\* dict equality of Python: same keys, same value for each key, whatever
\* the insertion order
DictEq(d, e) ==
    /\ Keys(d) = Keys(e)
    /\ \A h \in Keys(d) : Get(d, h) = Get(e, h)

(***************************************************************************)
(* _resolve: the image to keep among duplicates                            *)
(***************************************************************************)

\* Better with ">=" and "<=" for ">" and "<": the last record wins a tie
BetterOrEqual(strategy, img, candidate) ==
    CASE strategy = "highest_resolution" -> img.res[1] >= candidate.res[1]
      [] strategy = "lowest_resolution"  -> img.res[1] <= candidate.res[1]
      [] strategy = "newest"             -> img.ts >= candidate.ts
      [] strategy = "oldest"             -> img.ts <= candidate.ts
      [] OTHER                           -> FALSE

\* whether img replaces the running candidate under the strategy
Better(strategy, img, candidate) ==
    CASE strategy = "highest_resolution" -> img.res[1] > candidate.res[1]
      [] strategy = "lowest_resolution"  -> img.res[1] < candidate.res[1]
      [] strategy = "newest"             -> img.ts > candidate.ts
      [] strategy = "oldest"             -> img.ts < candidate.ts
      [] OTHER                           -> FALSE

\* the loop "for img in imgs" of _resolve from position i; candidate is
\* the empty list or the one-element list holding the running candidate
RECURSIVE Scan(_, _, _, _)
Scan(strategy, imgs, i, candidate) ==
    IF i > Len(imgs) THEN candidate
    ELSE IF candidate = << >> THEN Scan(strategy, imgs, i + 1, <<imgs[i]>>)
    ELSE IF Better(strategy, imgs[i], candidate[1])
         THEN Scan(strategy, imgs, i + 1, <<imgs[i]>>)
    ELSE Scan(strategy, imgs, i + 1, candidate)

Candidate(strategy, imgs) == Scan(strategy, imgs, 1, << >>)[1]

\* ResolveActions without the test of the candidate's path
ResolveActionsAlways(cfg, imgs, tzoff) ==
    IF cfg.duplicate_handling = "none"
    THEN [i \in 1..Len(imgs) |->
             [src |-> imgs[i].f, dst |-> _name(cfg, imgs[i], tzoff)]]
    ELSE LET candidate == Scan(cfg.duplicate_handling, imgs, 1, << >>)[1] IN
         <<[src |-> candidate.f, dst |-> _name(cfg, candidate, tzoff)]>>

\* the list of [src, dst] pairs _resolve returns for the bucket imgs
ResolveActions(cfg, imgs, tzoff) ==
    IF cfg.duplicate_handling = "none"
    THEN [i \in 1..Len(imgs) |->
             [src |-> imgs[i].f, dst |-> _name(cfg, imgs[i], tzoff)]]
    ELSE LET candidate == Candidate(cfg.duplicate_handling, imgs) IN
         IF StartsWith(candidate.f, cfg.output) THEN << >>
         ELSE <<[src |-> candidate.f, dst |-> _name(cfg, candidate, tzoff)]>>

\* ResolveNewdb keeping one record of the bucket under every strategy
ResolveNewdbOne(cfg, imgs, h, newdb, tzoff) ==
    LET candidate == Scan(cfg.duplicate_handling, imgs, 1, << >>)[1] IN
    IF cfg.duplicate_handling = "none" \/ StartsWith(candidate.f, cfg.output)
    THEN Put(newdb, h, Append(Get(newdb, h), candidate))
    ELSE Put(newdb, h, Append(Get(newdb, h),
             [f   |-> _name(cfg, candidate, tzoff),
              res |-> candidate.res,
              ts  |-> candidate.ts]))

\* ResolveNewdb keeping every record of the bucket under every strategy
ResolveNewdbAll(cfg, imgs, h, newdb, tzoff) ==
    Put(newdb, h, Get(newdb, h) \o imgs)

\* newdb as _resolve leaves it for the bucket imgs of hash h
ResolveNewdb(cfg, imgs, h, newdb, tzoff) ==
    IF cfg.duplicate_handling = "none"
    THEN Put(newdb, h, imgs)
    ELSE LET candidate == Candidate(cfg.duplicate_handling, imgs) IN
         IF StartsWith(candidate.f, cfg.output)
         THEN Put(newdb, h, Append(Get(newdb, h), candidate))
         ELSE Put(newdb, h, Append(Get(newdb, h),
                  [f   |-> _name(cfg, candidate, tzoff),
                   res |-> candidate.res,
                   ts  |-> candidate.ts]))

(***************************************************************************)
(* pickle.dump / pickle.load of the index                                  *)
(***************************************************************************)

\* the stream of one bucket: its records one after the other, each as the
\* four items path, width, height, timestamp
RECURSIVE DumpList(_, _)
DumpList(imgs, i) ==
    IF i > Len(imgs) THEN << >>
    ELSE <<imgs[i].f, imgs[i].res[1], imgs[i].res[2], imgs[i].ts>>
         \o DumpList(imgs, i + 1)

\* pickle.dump(db): for each key in insertion order the key, the length of
\* its list and the list
RECURSIVE Dump(_, _)
Dump(d, i) ==
    IF i > Len(d) THEN << >>
    ELSE <<d[i].h, Len(d[i].imgs)>> \o DumpList(d[i].imgs, 1) \o Dump(d, i + 1)

\* n records read from stream position p
RECURSIVE LoadList(_, _, _)
LoadList(stream, p, n) ==
    IF n = 0 THEN << >>
    ELSE <<[f |-> stream[p], res |-> <<stream[p + 1], stream[p + 2]>>,
            ts |-> stream[p + 3]]>> \o LoadList(stream, p + 4, n - 1)

\* Load that stops after the first key
LoadFirstKey(stream, p) ==
    IF p > Len(stream) THEN << >>
    ELSE <<[h |-> stream[p], imgs |-> LoadList(stream, p + 2, stream[p + 1])]>>

\* pickle.load: the dict read back from stream position p
RECURSIVE Load(_, _)
Load(stream, p) ==
    IF p > Len(stream) THEN << >>
    ELSE <<[h |-> stream[p], imgs |-> LoadList(stream, p + 2, stream[p + 1])]>>
         \o Load(stream, p + 2 + 4 * stream[p + 1])

(***************************************************************************)
(* _hash_img: the unit of work of the hashing pool                         *)
(***************************************************************************)

\* What a file on disk is to the hasher:
\*   "image"      decodes, hashes and has a readable timestamp
\*   "notimage"   Image.open raises (not an image)
\*   "unreadable" open(f, 'rb') raises (permissions, vanished file)
\*   "truncated"  Image.open reads the header, imagehash.phash raises
\*                while it loads the pixel data
\*   "badexif"    the EXIF DateTime tag does not match '%Y:%m:%d %H:%M:%S',
\*                time.strptime raises in _get_timestamp
Kinds == {"image", "notimage", "unreadable", "truncated", "badexif"}

\* _hash_img(f) for the file descriptor file: the list it returns, or the
\* exception that leaves it.  Only Image.open is inside the try block.
_hash_img(file) ==
    CASE file.kind = "unreadable" -> [raised |-> TRUE,  h |-> "", res |-> << >>, ts |-> 0]
      [] file.kind = "notimage"   -> [raised |-> FALSE, h |-> "", res |-> << >>, ts |-> 0]
      [] file.kind = "truncated"  -> [raised |-> TRUE,  h |-> "", res |-> << >>, ts |-> 0]
      [] file.kind = "badexif"    -> [raised |-> TRUE,  h |-> "", res |-> << >>, ts |-> 0]
      [] OTHER -> [raised |-> FALSE, h |-> file.h, res |-> file.res, ts |-> file.ts]

(***************************************************************************)
(* Bounds and the files, directories and configurations of the model       *)
(***************************************************************************)

\* image files in the first input directory
MaxFiles == 2

\* timeouts and I/O failures injected in one behaviour
MaxFaults == 2

\* consecutive invocations of main with the same configuration
MaxRuns == 2

\* records of a bucket of an index given to migrate or save_db directly
MaxBucket == 3

OutRoot == <<"/", "o">>

\* a second output directory, for the store of another output root
OtherRoot == <<"/", "p">>

InputA == <<"/", "i">>

\* an input directory beside the output root whose name begins with the
\* output root's name
InputB == <<"/", "o", "2">>

\* a configured input that is not a directory
InputMissing == <<"/", "n">>

Jpg == <<".", "j", "p", "g">>

Letter(k) == <<"a", "b", "c", "d", "e", "f">>[k]

\* 2023-05-04 12:00:00 UTC
Noon == 19481 * 86400 + 12 * 3600

DefaultNaming ==
    <<"%","Y","/","%","B","/","%","d","_",
      "{","f","i","l","e","n","a","m","e","}","_","{","r","e","s","y","}">>

Policies ==
    {"highest_resolution", "lowest_resolution", "newest", "oldest", "none"}

\* the k-th file of InputA: all of them share one perceptual hash, later
\* files are wider and older
FileA(k, kind) ==
    [f    |-> InputA \o <<"/", Letter(k)>> \o Jpg,
     kind |-> kind, h |-> "h1",
     res  |-> <<100 * k, 75 * k>>,
     ts   |-> Noon - 86400 * k]

\* the file of InputB
FileB(kind) ==
    [f    |-> InputB \o <<"/", "c">> \o Jpg,
     kind |-> kind, h |-> "h2",
     res  |-> <<800, 600>>,
     ts   |-> Noon]

\* the input trees: for each directory the files os.walk yields, in order
Tree(kinds) ==
    (InputA :> [k \in 1..MaxFiles |-> FileA(k, kinds[k])])
    @@ (InputB :> <<FileB(kinds[MaxFiles + 1])>>)

\* the trees of the model: at most one file is not a readable image
Trees ==
    {Tree(kinds) : kinds \in
        {ks \in [1..(MaxFiles + 1) -> Kinds] :
            Cardinality({k \in 1..(MaxFiles + 1) : ks[k] # "image"}) <= 1}}

\* the config dict load_config returns (cli.py passes absolute paths)
Config(policy, delete, inputs, output, threads) ==
    [file_naming        |-> DefaultNaming,
     duplicate_handling |-> policy,
     delete_input       |-> delete,
     inputs             |-> inputs,
     output             |-> output,
     threads            |-> threads]

NoJob == [kind |-> "none", id |-> 0, a |-> << >>, b |-> << >>]

NoFile == <<"absent">>

(***************************************************************************)
(* State                                                                   *)
(***************************************************************************)

VARIABLES
    config,     \* the config dict of the invocation
    tz,         \* UTC offset of the local zone of the process, in seconds
    tree,       \* input directory -> the files os.walk yields there
    outfiles,   \* paths of the image files written under an output root
    store,      \* output root -> content of its .picbasket.db, or NoFile
    pc,         \* where main is
    run,        \* number of the current invocation of main
    db,         \* the index main holds
    newdb,      \* the resolved index migrate builds
    di,         \* discover: position in config['inputs']
    fi,         \* discover: position in the walk of that directory
    ct,         \* discover: the counter ct
    job,        \* the pool job main is waiting for, or NoJob
    abandoned,  \* jobs whose wait timed out and that still run in the pool
    bi,         \* migrate: position in db.items()
    todo,       \* migrate: pairs returned by _resolve not yet submitted
    copies,     \* migrate: every pair _resolve returned in this call
    submitted,  \* jobs given to a pool in this invocation, in order
    events,     \* callbacks fired in this invocation, in order
    faults,     \* timeouts and I/O failures injected so far
    history,    \* per invocation: the input tree it started from, whether
                \* all its copies succeeded, whether it reported no warning
    probe       \* argument and result of a function applied on its own

vars == <<config, tz, tree, outfiles, store, pc, run, db, newdb, di, fi, ct,
          job, abandoned, bi, todo, copies, submitted, events, faults,
          history, probe>>

\* the files os.walk(inputs[d]) yields; nothing for a path that is no
\* directory
Walk(d) ==
    IF config.inputs[d] \in DOMAIN tree THEN tree[config.inputs[d]] ELSE << >>

\* the first position at or after d of config['inputs'] whose walk yields
\* a file (directories that do not exist are skipped by "continue")
RECURSIVE NextDir(_)
NextDir(d) ==
    IF d > Len(config.inputs) THEN d
    ELSE IF Len(Walk(d)) > 0 THEN d
    ELSE NextDir(d + 1)

\* whether a file exists at path p
Exists(p) ==
    \/ p \in outfiles
    \/ \E d \in DOMAIN tree : \E k \in 1..Len(tree[d]) : tree[d][k].f = p

\* the files of sequence s other than the one at path p
RECURSIVE Without(_, _)
Without(s, p) ==
    IF s = << >> THEN << >>
    ELSE IF Head(s).f = p THEN Without(Tail(s), p)
    ELSE <<Head(s)>> \o Without(Tail(s), p)

\* the pool has a worker that is not held by an abandoned job
WorkerFree(n) == Cardinality(abandoned) < n

\* the state main starts an invocation with
Fresh ==
    /\ pc = "check_config"
    /\ db = << >>
    /\ newdb = << >>
    /\ di = 1
    /\ fi = 1
    /\ ct = 0
    /\ job = NoJob
    /\ abandoned = {}
    /\ bi = 0
    /\ todo = << >>
    /\ copies = << >>
    /\ submitted = << >>
    /\ events = << >>

Configs ==
    {Config(p, d, <<InputA, InputMissing, InputB>>, OutRoot, 1) :
        p \in Policies, d \in BOOLEAN}
    \cup {Config(p, FALSE, <<InputA, InputMissing, InputB>>, OutRoot, 2) :
            p \in {"highest_resolution", "oldest"}}
    \cup {Config("highest_resolution", FALSE, << >>, OutRoot, 1),
          Config("highest_resolution", FALSE, <<InputA>>, << >>, 1)}

Init ==
    /\ config \in Configs
    /\ tz = 0
    /\ tree \in Trees
    /\ outfiles = {}
    /\ store = (OutRoot :> NoFile) @@ (OtherRoot :> NoFile)
    /\ run = 1
    /\ faults = 0
    /\ history = <<[tree |-> tree, ok |-> FALSE, clean |-> FALSE]>>
    /\ probe = << >>
    /\ Fresh

(***************************************************************************)
(* cli.main up to the main flow, load_db                                   *)
(***************************************************************************)

Event(name, args) == [ev |-> name, args |-> args]

\* main with an error() that reports and returns instead of exiting
CheckConfigNoExit ==
    /\ pc = "check_config"
    /\ pc' = "load_db"
    /\ UNCHANGED <<config, tz, tree, outfiles, store, run, db, newdb, di, fi,
                   ct, job, abandoned, bi, todo, copies, submitted, events,
                   faults, history, probe>>

\* main: error() when no input directory or no output directory is
\* configured, before the main flow
CheckConfig ==
    /\ pc = "check_config"
    /\ pc' = IF Len(config.inputs) = 0 \/ config.output = << >>
             THEN "exit1" ELSE "load_db"
    /\ UNCHANGED <<config, tz, tree, outfiles, store, run, db, newdb, di, fi,
                   ct, job, abandoned, bi, todo, copies, submitted, events,
                   faults, history, probe>>

\* load_db(config) given the files under the output roots
load_db(cfg, st) ==
    IF st[cfg.output] # NoFile THEN Load(st[cfg.output], 1) ELSE << >>

\* db = pb.load_db(config), then discover creates its pool and reaches the
\* first file
LoadDb ==
    /\ pc = "load_db"
    /\ db' = load_db(config, store)
    /\ events' = IF store[config.output] # NoFile
                 THEN Append(events, Event("on_load_db", <<db'>>))
                 ELSE events
    /\ pc' = "discover"
    /\ di' = NextDir(1)
    /\ fi' = 1
    /\ ct' = 0
    /\ UNCHANGED <<config, tz, tree, outfiles, store, run, newdb, job,
                   abandoned, bi, todo, copies, submitted, faults, history,
                   probe>>

(***************************************************************************)
(* discover                                                                *)
(***************************************************************************)

\* discover moves on to the file after Walk(di)[fi]; ct is reset when the
\* loop enters another input directory
Advance(newct) ==
    IF fi < Len(Walk(di))
    THEN /\ fi' = fi + 1
         /\ di' = di
         /\ ct' = newct
    ELSE /\ fi' = 1
         /\ di' = NextDir(di + 1)
         /\ ct' = IF NextDir(di + 1) <= Len(config.inputs) THEN 0 ELSE newct

\* a discover that submits the job of the current file without waiting for
\* the job it submitted before
HashSubmitEager ==
    /\ pc = "discover"
    /\ di <= Len(config.inputs)
    /\ Len(submitted) < MaxFiles + 2
    /\ job' = [kind |-> "hash", id |-> Len(submitted) + 1,
               a |-> Walk(di)[fi].f, b |-> << >>]
    /\ submitted' = Append(submitted, job')
    /\ UNCHANGED <<config, tz, tree, outfiles, store, pc, run, db, newdb, di,
                   fi, ct, abandoned, bi, todo, copies, events, faults,
                   history, probe>>

\* pool.apply_async(_hash_img, (f,))
HashSubmit ==
    /\ pc = "discover"
    /\ job.kind = "none"
    /\ di <= Len(config.inputs)
    /\ job' = [kind |-> "hash", id |-> Len(submitted) + 1,
               a |-> Walk(di)[fi].f, b |-> << >>]
    /\ submitted' = Append(submitted, job')
    /\ UNCHANGED <<config, tz, tree, outfiles, store, pc, run, db, newdb, di,
                   fi, ct, abandoned, bi, todo, copies, events, faults,
                   history, probe>>

\* a discover that puts the new record at the head of its bucket
HashResultPrepend ==
    /\ pc = "discover"
    /\ job.kind = "hash"
    /\ WorkerFree(config.threads)
    /\ LET r == _hash_img(Walk(di)[fi]) IN
       /\ ~r.raised
       /\ IF r.h # ""
          THEN /\ db' = Put(db, r.h,
                            <<[f |-> job.a, res |-> r.res, ts |-> r.ts]>>
                            \o Get(db, r.h))
               /\ events' = Append(events,
                      Event("on_hashed", <<r.h, job.a, r.res, r.ts, ct + 1,
                                           Len(Get(db', r.h))>>))
               /\ Advance(ct + 1)
          ELSE /\ UNCHANGED <<db, events>>
               /\ Advance(ct)
    /\ job' = NoJob
    /\ UNCHANGED <<config, tz, tree, outfiles, store, pc, run, newdb,
                   abandoned, bi, todo, copies, submitted, faults, history,
                   probe>>

\* .get(timeout=1000) returns what _hash_img returned
HashResult ==
    /\ pc = "discover"
    /\ job.kind = "hash"
    /\ WorkerFree(config.threads)
    /\ LET r == _hash_img(Walk(di)[fi]) IN
       /\ ~r.raised
       /\ IF r.h # ""
          THEN /\ db' = Put(db, r.h,
                            Append(Get(db, r.h),
                                   [f |-> job.a, res |-> r.res, ts |-> r.ts]))
               /\ events' = Append(events,
                      Event("on_hashed", <<r.h, job.a, r.res, r.ts, ct + 1,
                                           Len(Get(db', r.h))>>))
               /\ Advance(ct + 1)
          ELSE /\ UNCHANGED <<db, events>>
               /\ Advance(ct)
    /\ job' = NoJob
    /\ UNCHANGED <<config, tz, tree, outfiles, store, pc, run, newdb,
                   abandoned, bi, todo, copies, submitted, faults, history,
                   probe>>

\* .get re-raises the exception that left _hash_img: it is no TimeoutError,
\* so it leaves discover and main; the pool is terminated on the way out
HashRaise ==
    /\ pc = "discover"
    /\ job.kind = "hash"
    /\ WorkerFree(config.threads)
    /\ _hash_img(Walk(di)[fi]).raised
    /\ pc' = "crashed"
    /\ job' = NoJob
    /\ abandoned' = {}
    /\ UNCHANGED <<config, tz, tree, outfiles, store, run, db, newdb, di, fi,
                   ct, bi, todo, copies, submitted, events, faults, history,
                   probe>>

\* a wait that gives up on the file without a warning
HashTimeoutSilent ==
    /\ pc = "discover"
    /\ job.kind = "hash"
    /\ faults < MaxFaults
    /\ faults' = faults + 1
    /\ abandoned' = abandoned \cup {job}
    /\ job' = NoJob
    /\ Advance(ct)
    /\ UNCHANGED <<config, tz, tree, outfiles, store, pc, run, db, newdb, bi,
                   todo, copies, submitted, events, history, probe>>

\* .get(timeout=1000) raises TimeoutError: warning, continue
HashTimeout ==
    /\ pc = "discover"
    /\ job.kind = "hash"
    /\ faults < MaxFaults
    /\ faults' = faults + 1
    /\ events' = Append(events, Event("warning", <<"hash", job.a>>))
    /\ abandoned' = abandoned \cup {job}
    /\ job' = NoJob
    /\ Advance(ct)
    /\ UNCHANGED <<config, tz, tree, outfiles, store, pc, run, db, newdb, bi,
                   todo, copies, submitted, history, probe>>

\* the for loops are over: the with block terminates the pool, migrate
\* begins (os.makedirs, newdb = defaultdict(list), a new pool)
DiscoverDone ==
    /\ pc = "discover"
    /\ job.kind = "none"
    /\ di > Len(config.inputs)
    /\ abandoned' = {}
    /\ pc' = "migrate"
    /\ newdb' = << >>
    /\ bi' = 1
    /\ UNCHANGED <<config, tz, tree, outfiles, store, run, db, di, fi, ct,
                   job, todo, copies, submitted, events, faults, history,
                   probe>>

(***************************************************************************)
(* migrate, _copy                                                          *)
(***************************************************************************)

\* for h, imgs in db.items(): _resolve(config, imgs, h, newdb) is evaluated
\* once, the loop over the pairs it returned follows
Resolve ==
    /\ pc = "migrate"
    /\ job.kind = "none"
    /\ todo = << >>
    /\ bi <= Len(db)
    /\ newdb' = ResolveNewdb(config, db[bi].imgs, db[bi].h, newdb, tz)
    /\ todo' = ResolveActions(config, db[bi].imgs, tz)
    /\ copies' = copies \o [i \in 1..Len(todo') |->
                               [h |-> db[bi].h, src |-> todo'[i].src,
                                dst |-> todo'[i].dst]]
    /\ bi' = bi + 1
    /\ UNCHANGED <<config, tz, tree, outfiles, store, pc, run, db, di, fi, ct,
                   job, abandoned, submitted, events, faults, history, probe>>

\* pool.apply_async(_copy, (src, dst, config['delete_input'],))
CopySubmit ==
    /\ pc = "migrate"
    /\ job.kind = "none"
    /\ todo # << >>
    /\ job' = [kind |-> "copy", id |-> Len(submitted) + 1,
               a |-> Head(todo).src, b |-> Head(todo).dst]
    /\ submitted' = Append(submitted, job')
    /\ todo' = Tail(todo)
    /\ UNCHANGED <<config, tz, tree, outfiles, store, pc, run, db, newdb, di,
                   fi, ct, abandoned, bi, copies, events, faults, history,
                   probe>>

\* shutil.copy2 / shutil.move can succeed: the source exists, and copy2
\* refuses to copy a file onto itself
CanCopy(src, dst) == Exists(src) /\ (src # dst \/ config.delete_input)

\* the files after _copy(src, dst, removesrc) succeeded
Copied(src, dst) ==
    /\ outfiles' = (IF config.delete_input THEN outfiles \ {src} ELSE outfiles)
                   \cup {dst}
    /\ tree' = IF config.delete_input
               THEN [d \in DOMAIN tree |-> Without(tree[d], src)]
               ELSE tree

\* _copy ran to its end within the timeout and fired on_copied
CopyOk ==
    /\ pc = "migrate"
    /\ job.kind = "copy"
    /\ WorkerFree(IF config.threads < 4 THEN config.threads ELSE 4)
    /\ CanCopy(job.a, job.b)
    /\ Copied(job.a, job.b)
    /\ events' = Append(events, Event("on_copied", <<job.a, job.b>>))
    /\ job' = NoJob
    /\ UNCHANGED <<config, tz, store, pc, run, db, newdb, di, fi, ct,
                   abandoned, bi, todo, copies, submitted, faults, history,
                   probe>>

\* a failed copy that puts the record of its bucket back at the source path
CopyFailRollback ==
    /\ pc = "migrate"
    /\ job.kind = "copy"
    /\ WorkerFree(IF config.threads < 4 THEN config.threads ELSE 4)
    /\ \/ /\ faults < MaxFaults
          /\ faults' = faults + 1
       \/ /\ ~CanCopy(job.a, job.b)
          /\ faults' = faults
    /\ events' = Append(events, Event("warning", <<"copy_failed", job.a, job.b>>))
    /\ LET c == CHOOSE x \in {copies[k] : k \in 1..Len(copies)} :
                    x.src = job.a /\ x.dst = job.b IN
       newdb' = Put(newdb, c.h,
                    [k \in 1..Len(Get(newdb, c.h)) |->
                        [Get(newdb, c.h)[k] EXCEPT !.f = job.a]])
    /\ job' = NoJob
    /\ UNCHANGED <<config, tz, tree, outfiles, store, pc, run, db, di,
                   fi, ct, abandoned, bi, todo, copies, submitted, history,
                   probe>>

\* makedirs, copy2 or move raised inside _copy: the bare except fires the
\* warning and _copy returns normally
CopyFail ==
    /\ pc = "migrate"
    /\ job.kind = "copy"
    /\ WorkerFree(IF config.threads < 4 THEN config.threads ELSE 4)
    /\ \/ /\ faults < MaxFaults
          /\ faults' = faults + 1
       \/ /\ ~CanCopy(job.a, job.b)
          /\ faults' = faults
    /\ events' = Append(events, Event("warning", <<"copy_failed", job.a, job.b>>))
    /\ job' = NoJob
    /\ UNCHANGED <<config, tz, tree, outfiles, store, pc, run, db, newdb, di,
                   fi, ct, abandoned, bi, todo, copies, submitted, history,
                   probe>>

\* a wait that puts the pair back at the head of the list after a timeout
CopyTimeoutRetry ==
    /\ pc = "migrate"
    /\ job.kind = "copy"
    /\ faults < MaxFaults
    /\ faults' = faults + 1
    /\ events' = Append(events, Event("warning", <<"copy_timeout", job.a, job.b>>))
    /\ abandoned' = abandoned \cup {job}
    /\ todo' = <<[src |-> job.a, dst |-> job.b]>> \o todo
    /\ job' = NoJob
    /\ UNCHANGED <<config, tz, tree, outfiles, store, pc, run, db, newdb, di,
                   fi, ct, bi, copies, submitted, history, probe>>

\* .get(timeout=10000) raises TimeoutError: warning, next pair
CopyTimeout ==
    /\ pc = "migrate"
    /\ job.kind = "copy"
    /\ faults < MaxFaults
    /\ faults' = faults + 1
    /\ events' = Append(events, Event("warning", <<"copy_timeout", job.a, job.b>>))
    /\ abandoned' = abandoned \cup {job}
    /\ job' = NoJob
    /\ UNCHANGED <<config, tz, tree, outfiles, store, pc, run, db, newdb, di,
                   fi, ct, bi, todo, copies, submitted, history, probe>>

\* the file of the input trees at path p
FileAt(p) ==
    CHOOSE x \in UNION {{tree[d][k] : k \in 1..Len(tree[d])} : d \in DOMAIN tree} :
        x.f = p

\* a pool whose late hashing results still reach the index, as with a
\* result callback
LateCompleteAppends ==
    /\ \E j \in abandoned :
        /\ abandoned' = abandoned \ {j}
        /\ IF j.kind = "copy" /\ CanCopy(j.a, j.b)
           THEN /\ Copied(j.a, j.b)
                /\ events' = Append(events, Event("on_copied", <<j.a, j.b>>))
                /\ db' = db
           ELSE IF j.kind = "copy"
           THEN /\ events' = Append(events,
                       Event("warning", <<"copy_failed", j.a, j.b>>))
                /\ UNCHANGED <<tree, outfiles, db>>
           ELSE /\ UNCHANGED <<tree, outfiles, events>>
                /\ LET r == _hash_img(FileAt(j.a)) IN
                   db' = IF ~r.raised /\ r.h # ""
                         THEN Put(db, r.h,
                                  Append(Get(db, r.h),
                                         [f |-> j.a, res |-> r.res,
                                          ts |-> r.ts]))
                         ELSE db
    /\ UNCHANGED <<config, tz, store, pc, run, newdb, di, fi, ct, job, bi,
                   todo, copies, submitted, faults, history, probe>>

\* a job nobody waits for any more ends in its worker: the result of a
\* hashing job is dropped with its AsyncResult, a copy job has its effect
\* on the files
LateComplete ==
    /\ \E j \in abandoned :
        /\ abandoned' = abandoned \ {j}
        /\ IF j.kind = "copy" /\ CanCopy(j.a, j.b)
           THEN /\ Copied(j.a, j.b)
                /\ events' = Append(events, Event("on_copied", <<j.a, j.b>>))
           ELSE IF j.kind = "copy"
           THEN /\ events' = Append(events,
                       Event("warning", <<"copy_failed", j.a, j.b>>))
                /\ UNCHANGED <<tree, outfiles>>
           ELSE UNCHANGED <<tree, outfiles, events>>
    /\ UNCHANGED <<config, tz, store, pc, run, db, newdb, di, fi, ct, job, bi,
                   todo, copies, submitted, faults, history, probe>>

\* the loop over db.items() is over: the with block terminates the pool,
\* on_migrated fires, main binds db to the returned newdb
MigrateDone ==
    /\ pc = "migrate"
    /\ job.kind = "none"
    /\ todo = << >>
    /\ bi > Len(db)
    /\ abandoned' = {}
    /\ events' = Append(events, Event("on_migrated", <<newdb>>))
    /\ db' = newdb
    /\ pc' = "save_db"
    /\ UNCHANGED <<config, tz, tree, outfiles, store, run, newdb, di, fi, ct,
                   job, bi, todo, copies, submitted, faults, history, probe>>

(***************************************************************************)
(* save_db, save_config, the next invocation                               *)
(***************************************************************************)

\* the files under the output roots after save_db(config, db)
save_db(cfg, d, st) == [st EXCEPT ![cfg.output] = Dump(d, 1)]

SaveDb ==
    /\ pc = "save_db"
    /\ store' = save_db(config, db, store)
    /\ events' = Append(events, Event("on_save_db", <<config.output>>))
    /\ pc' = "save_config"
    /\ UNCHANGED <<config, tz, tree, outfiles, run, db, newdb, di, fi, ct,
                   job, abandoned, bi, todo, copies, submitted, faults,
                   history, probe>>

SaveConfig ==
    /\ pc = "save_config"
    /\ events' = Append(events, Event("on_saved_config", <<config.output>>))
    /\ pc' = "done"
    /\ UNCHANGED <<config, tz, tree, outfiles, store, run, db, newdb, di, fi,
                   ct, job, abandoned, bi, todo, copies, submitted, faults,
                   history, probe>>

\* every copy job of this invocation ended with on_copied
CopiesOk ==
    \A i \in 1..Len(events) :
        events[i].ev = "warning" => events[i].args[1] = "hash"

\* no warning was reported in this invocation
NoWarning == \A i \in 1..Len(events) : events[i].ev # "warning"

\* main is invoked again with the same command line
NextRun ==
    /\ pc = "done"
    /\ run < MaxRuns
    /\ run' = run + 1
    /\ history' = Append([history EXCEPT ![run].ok = CopiesOk,
                                          ![run].clean = NoWarning],
                         [tree |-> tree, ok |-> FALSE, clean |-> FALSE])
    /\ pc' = "check_config"
    /\ db' = << >>
    /\ newdb' = << >>
    /\ di' = 1
    /\ fi' = 1
    /\ ct' = 0
    /\ bi' = 0
    /\ copies' = << >>
    /\ submitted' = << >>
    /\ events' = << >>
    /\ UNCHANGED <<config, tz, tree, outfiles, store, job, abandoned, todo,
                   faults, probe>>

Next ==
    \/ CheckConfig
    \/ LoadDb
    \/ HashSubmit
    \/ HashResult
    \/ HashRaise
    \/ HashTimeout
    \/ DiscoverDone
    \/ Resolve
    \/ CopySubmit
    \/ CopyOk
    \/ CopyFail
    \/ CopyTimeout
    \/ LateComplete
    \/ MigrateDone
    \/ SaveDb
    \/ SaveConfig
    \/ NextRun

Spec == Init /\ [][Next]_vars

(***************************************************************************)
(* migrate on its own: an index as an earlier invocation (possibly under   *)
(* another duplicate_handling) left it and discover extended it            *)
(***************************************************************************)

\* a file already under the output root
OutFile == OutRoot \o <<"/", "x">> \o Jpg

\* the records a bucket is drawn from: a path under the output root, one in
\* the sibling directory InputB, one in InputA, each either narrow and new
\* or wide and old
BucketRecords ==
    {[f |-> p, res |-> k[1], ts |-> k[2]] :
        p \in {OutFile, FileB("image").f, FileA(1, "image").f},
        k \in {<< <<100, 75>>, Noon >>, << <<200, 150>>, Noon - 86400 >>}}

RECURSIVE SeqsUpTo(_, _)
SeqsUpTo(S, n) ==
    IF n = 0 THEN {<< >>}
    ELSE LET shorter == SeqsUpTo(S, n - 1) IN
         shorter \cup {Append(q, x) : q \in {r \in shorter : Len(r) = n - 1}, x \in S}

Buckets == SeqsUpTo(BucketRecords, MaxBucket) \ {<< >>}

\* a second bucket, of another hash
\* an image in a subdirectory of InputA with the basename, the height and
\* the day of the narrow and new record of the first file of InputA
FileS ==
    [f    |-> InputA \o <<"/", "s", "/", Letter(1)>> \o Jpg,
     kind |-> "image", h |-> "h2",
     res  |-> <<100, 75>>,
     ts   |-> Noon]

SecondBucket ==
    [h |-> "h2", imgs |-> <<[f |-> FileS.f, res |-> FileS.res,
                             ts |-> FileS.ts]>>]

InitMigrate ==
    /\ config \in {Config(p, FALSE, <<InputA, InputB>>, OutRoot, 1) : p \in Policies}
    /\ tz = 0
    /\ tree = Tree([k \in 1..(MaxFiles + 1) |-> "image"])
              @@ (InputA \o <<"/", "s">> :> <<FileS>>)
    /\ outfiles = {OutFile}
    /\ store = (OutRoot :> NoFile) @@ (OtherRoot :> NoFile)
    /\ run = 1
    /\ faults = 0
    /\ history = <<[tree |-> tree, ok |-> FALSE, clean |-> FALSE]>>
    /\ db \in {<<[h |-> "h1", imgs |-> b], SecondBucket>> : b \in Buckets}
    /\ probe = db
    /\ pc = "migrate"
    /\ newdb = << >>
    /\ di = 1
    /\ fi = 1
    /\ ct = 0
    /\ job = NoJob
    /\ abandoned = {}
    /\ bi = 1
    /\ todo = << >>
    /\ copies = << >>
    /\ submitted = << >>
    /\ events = << >>

NextMigrate ==
    \/ Resolve
    \/ CopySubmit
    \/ CopyOk
    \/ CopyFail
    \/ CopyTimeout
    \/ LateComplete
    \/ MigrateDone

SpecMigrate == InitMigrate /\ [][NextMigrate]_vars

(***************************************************************************)
(* Properties of _resolve and migrate                                      *)
(***************************************************************************)

\* path p lies inside the directory tree of root
UnderRoot(p, root) == StartsWith(p, root \o <<"/">>)

\* the quantity a strategy compares
KeyOf(strategy, img) ==
    IF strategy \in {"highest_resolution", "lowest_resolution"}
    THEN img.res[1] ELSE img.ts

\* the strategy keeps the record with the largest key
Maximising(strategy) == strategy \in {"highest_resolution", "newest"}

\* the position of the first record of imgs whose key is the extremum
FirstExtremum(strategy, imgs) ==
    CHOOSE i \in 1..Len(imgs) :
        /\ \A j \in 1..Len(imgs) :
              IF Maximising(strategy)
              THEN KeyOf(strategy, imgs[i]) >= KeyOf(strategy, imgs[j])
              ELSE KeyOf(strategy, imgs[i]) <= KeyOf(strategy, imgs[j])
        /\ \A j \in 1..(i - 1) :
              KeyOf(strategy, imgs[j]) # KeyOf(strategy, imgs[i])

\* the buckets of the input index migrate has resolved so far
Resolved == 1..(bi - 1)

\* the pairs _resolve returned for the bucket of hash h
RECURSIVE CopiesFrom(_, _)
CopiesFrom(h, i) ==
    IF i > Len(copies) THEN << >>
    ELSE IF copies[i].h = h
         THEN <<[src |-> copies[i].src, dst |-> copies[i].dst]>> \o CopiesFrom(h, i + 1)
    ELSE CopiesFrom(h, i + 1)

CopiesOf(h) == CopiesFrom(h, 1)

\* the path the record retained for hash h had in the input bucket
RetainedPath(h) ==
    IF CopiesOf(h) # << >> THEN CopiesOf(h)[1].src ELSE Get(newdb, h)[1].f

\* C2: under a policy other than none, the record retained for a bucket is
\* the first record in bucket order that attains the policy's extremum
\* (maximum width, minimum width, maximum timestamp, minimum timestamp):
\* the resolved bucket holds one record with that record's resolution and
\* timestamp, and it stems from that record's path.
C2_FirstExtremumRetained ==
    config.duplicate_handling # "none" =>
        \A k \in Resolved :
            LET imgs == probe[k].imgs
                i    == FirstExtremum(config.duplicate_handling, imgs)
                kept == Get(newdb, probe[k].h)
            IN /\ Len(kept) = 1
               /\ kept[1].res = imgs[i].res
               /\ kept[1].ts = imgs[i].ts
               /\ RetainedPath(probe[k].h) = imgs[i].f

\* a resolved bucket whose extremum is attained first at position 2 or
\* later and again, by a record at another path, after that
C2_Witness ==
    /\ config.duplicate_handling # "none"
    /\ \E k \in Resolved :
          LET imgs == probe[k].imgs
              i    == FirstExtremum(config.duplicate_handling, imgs)
          IN /\ i >= 2
             /\ \E j \in (i + 1)..Len(imgs) :
                   /\ KeyOf(config.duplicate_handling, imgs[j])
                        = KeyOf(config.duplicate_handling, imgs[i])
                   /\ imgs[j].f # imgs[i].f

\* C3: under policy none every bucket of the resolved index has as many
\* records as the bucket of the input index, while migrate runs and in the
\* index it returns, which has the hashes of the input index.
C3_NoneKeepsBucketSize ==
    config.duplicate_handling = "none" =>
        /\ \A k \in Resolved :
              Len(Get(newdb, probe[k].h)) = Len(probe[k].imgs)
        /\ pc = "save_db" =>
              /\ Keys(db) = Keys(probe)
              /\ \A k \in 1..Len(probe) :
                    Len(Get(db, probe[k].h)) = Len(probe[k].imgs)

\* migrate returned under policy none for an index with a bucket of
\* several records
C3_Witness ==
    /\ config.duplicate_handling = "none"
    /\ pc = "save_db"
    /\ \E k \in 1..Len(probe) : Len(probe[k].imgs) >= 2

\* C4: under a policy other than none, when the path of the selected
\* candidate lies under the output root, no pair is returned for the bucket
\* and the resolved bucket holds the candidate as it was.
C4_CandidateUnderRootKept ==
    config.duplicate_handling # "none" =>
        \A k \in Resolved :
            LET imgs == probe[k].imgs
                cand == imgs[FirstExtremum(config.duplicate_handling, imgs)]
            IN UnderRoot(cand.f, config.output) =>
                  /\ CopiesOf(probe[k].h) = << >>
                  /\ Get(newdb, probe[k].h) = <<cand>>

\* a resolved bucket whose candidate is under the output root while another
\* record of the bucket is not
C4_Witness ==
    /\ config.duplicate_handling # "none"
    /\ \E k \in Resolved :
          LET imgs == probe[k].imgs
              cand == imgs[FirstExtremum(config.duplicate_handling, imgs)]
          IN /\ UnderRoot(cand.f, config.output)
             /\ \E j \in 1..Len(imgs) : ~UnderRoot(imgs[j].f, config.output)

\* C5: under a policy other than none, when the path of the selected
\* candidate does not lie inside the output root's directory tree, exactly
\* one pair is returned for the bucket: from the candidate's path to the
\* path _name computes.
C5_CandidateOutsideRootCopied ==
    config.duplicate_handling # "none" =>
        \A k \in Resolved :
            LET imgs == probe[k].imgs
                cand == imgs[FirstExtremum(config.duplicate_handling, imgs)]
            IN ~UnderRoot(cand.f, config.output) =>
                  CopiesOf(probe[k].h)
                    = <<[src |-> cand.f, dst |-> _name(config, cand, tz)]>>

\* the pairs of the records of imgs, from position i, that are not under
\* the output root
RECURSIVE PairsOutsideRoot(_, _)
PairsOutsideRoot(imgs, i) ==
    IF i > Len(imgs) THEN << >>
    ELSE IF UnderRoot(imgs[i].f, config.output) THEN PairsOutsideRoot(imgs, i + 1)
    ELSE <<[src |-> imgs[i].f, dst |-> _name(config, imgs[i], tz)]>>
         \o PairsOutsideRoot(imgs, i + 1)

\* C6: under policy none every record of a bucket yields exactly one pair,
\* except the records whose path lies under the output root, which yield
\* none.
C6_NoneCopiesAllButUnderRoot ==
    config.duplicate_handling = "none" =>
        \A k \in Resolved :
            CopiesOf(probe[k].h) = PairsOutsideRoot(probe[k].imgs, 1)

(***************************************************************************)
(* Properties of whole invocations                                         *)
(***************************************************************************)

\* C1: idempotence across runs, for every duplicate policy: when the
\* previous invocation ran to its end with every file hashed and every copy
\* succeeded (no warning), and this invocation starts from the same input
\* files and the index the previous one saved, migrate produces no copy
\* action.
C1_SecondRunCopiesNothing ==
    (/\ run >= 2
     /\ history[run - 1].clean
     /\ history[run - 1].tree = history[run].tree)
        => copies = << >>

\* the files discover is to visit in this invocation, in the order of
\* config['inputs'] and of the walk of each directory
RECURSIVE WalkAll(_)
WalkAll(d) ==
    IF d > Len(config.inputs) THEN << >>
    ELSE (IF config.inputs[d] \in DOMAIN history[run].tree
          THEN history[run].tree[config.inputs[d]] ELSE << >>)
         \o WalkAll(d + 1)

\* the wait for the hashing job of the file at path f timed out
TimedOut(f) ==
    \E i \in 1..Len(events) :
        events[i].ev = "warning" /\ events[i].args = <<"hash", f>>

\* the file at path f was given to the hashing pool
SubmittedForHash(f) ==
    \E i \in 1..Len(submitted) :
        submitted[i].kind = "hash" /\ submitted[i].a = f

\* discover was left, by its end or by an exception
DiscoverOver == pc \notin {"check_config", "exit1", "load_db", "discover"}

\* C7: a hashing timeout on one file never prevents later files from being
\* processed: once discover is over, every file that comes after a
\* timed-out file in the walk of the same input directory or in a later
\* input directory was submitted for hashing.
C7_FilesAfterTimeoutSubmitted ==
    DiscoverOver =>
        \A i \in 1..Len(WalkAll(1)) : \A j \in (i + 1)..Len(WalkAll(1)) :
            TimedOut(WalkAll(1)[i].f) => SubmittedForHash(WalkAll(1)[j].f)

\* C8: a file that cannot be decoded as an image never aborts discover:
\* for every such file whose hashing job was waited for without a timeout,
\* _hash_img returned the skip outcome instead of raising, main went on,
\* the index has no record of the file and no warning names it.
C8_UndecodableFileSkipped ==
    \A i \in 1..Len(WalkAll(1)) :
        LET file == WalkAll(1)[i] IN
        (/\ file.kind \in {"notimage", "truncated", "badexif"}
         /\ SubmittedForHash(file.f)
         /\ job.a # file.f
         /\ ~TimedOut(file.f))
            => /\ ~_hash_img(file).raised
               /\ _hash_img(file).h = ""
               /\ pc # "crashed"
               /\ \A k \in 1..Len(db) : \A n \in 1..Len(db[k].imgs) :
                     db[k].imgs[n].f # file.f
               /\ \A e \in 1..Len(events) :
                     events[e].ev = "warning" => events[e].args[2] # file.f

(***************************************************************************)
(* save_db and load_db on their own: main from save_db, with any index,    *)
(* to the load_db of the next invocation; or main at load_db with no store *)
(***************************************************************************)

Indexes ==
    {<< >>}
    \cup {<<[h |-> "h1", imgs |-> b]>> : b \in Buckets}
    \cup {<<[h |-> "h1", imgs |-> b], SecondBucket>> : b \in Buckets}
    \cup {<<SecondBucket, [h |-> "h1", imgs |-> b]>> : b \in Buckets}

InitDb ==
    /\ config = Config("none", FALSE, <<InputA>>, OutRoot, 1)
    /\ tz = 0
    /\ tree = Tree([k \in 1..(MaxFiles + 1) |-> "image"])
    /\ outfiles = {}
    /\ store = (OutRoot :> NoFile) @@ (OtherRoot :> Dump(<<SecondBucket>>, 1))
    /\ run = 1
    /\ faults = 0
    /\ history = <<[tree |-> tree, ok |-> FALSE, clean |-> FALSE]>>
    /\ \/ /\ pc = "save_db"
          /\ db \in Indexes
       \/ /\ pc = "load_db"
          /\ db = << >>
    /\ probe = db
    /\ newdb = << >>
    /\ di = 1
    /\ fi = 1
    /\ ct = 0
    /\ job = NoJob
    /\ abandoned = {}
    /\ bi = 0
    /\ todo = << >>
    /\ copies = << >>
    /\ submitted = << >>
    /\ events = << >>

NextDb ==
    \/ SaveDb
    \/ SaveConfig
    \/ NextRun
    \/ CheckConfig
    \/ LoadDb

SpecDb == InitDb /\ [][NextDb]_vars

\* C9: load_db after save_db(X) with the same output directory returns a
\* mapping equal to X: the same hashes and, in each bucket, the same records
\* in the same order; with no store file load_db returns an empty index.
C9_LoadAfterSave ==
    pc = "discover" =>
        /\ DictEq(db, probe)
        /\ \A h \in Keys(probe) :
              /\ Len(Get(db, h)) = Len(Get(probe, h))
              /\ \A n \in 1..Len(Get(probe, h)) : Get(db, h)[n] = Get(probe, h)[n]
        /\ store[config.output] = NoFile => db = << >>

\* load_db returned an index of two hashes, one with a bucket of three
\* records that are not all equal, that save_db had written
C9_Witness ==
    /\ pc = "discover"
    /\ run = 2
    /\ Len(db) = 2
    /\ \E k \in 1..2 : Len(db[k].imgs) = 3 /\ db[k].imgs[1] # db[k].imgs[3]

(***************************************************************************)
(* _name on its own                                                        *)
(***************************************************************************)

Templates ==
    {DefaultNaming,
     <<"{","r","e","s","x","}","x","{","r","e","s","y","}","_",
       "{","f","i","l","e","n","a","m","e","}">>,
     <<"%","Y","-","%","m","-","%","d">>}

\* local zones: UTC-5, UTC, UTC+9
TimeZones == {0 - 5 * 3600, 0, 9 * 3600}

\* 2023-05-04 00:00:00 UTC
May4 == 19481 * 86400

\* 2000-02-29 00:00:00 UTC
Feb29 == 11016 * 86400

NamedFiles ==
    {InputA \o <<"/", "i", "m", "g">> \o Jpg,
     InputA \o <<"/", "s", "/", "a", ".", "t", "a", "r", ".", "g", "z">>,
     InputB \o <<"/", ".", "h", "i", "d", "d", "e", "n">>}

NamedRecords ==
    {[f |-> p, res |-> r, ts |-> t] :
        p \in NamedFiles,
        r \in {<<800, 600>>, <<600, 800>>},
        t \in {May4 - 3600, May4, May4 + 12 * 3600, May4 + 86399,
               Feb29 + 12 * 3600, 12 * 3600}}

InitName ==
    /\ config \in {[Config("highest_resolution", FALSE, <<InputA>>, o, 1)
                       EXCEPT !.file_naming = t] :
                      t \in Templates, o \in {OutRoot, OtherRoot}}
    /\ tz \in TimeZones
    /\ tree = Tree([k \in 1..(MaxFiles + 1) |-> "image"])
    /\ outfiles = {}
    /\ store = (OutRoot :> NoFile) @@ (OtherRoot :> NoFile)
    /\ run = 1
    /\ faults = 0
    /\ history = <<[tree |-> tree, ok |-> FALSE, clean |-> FALSE]>>
    /\ probe \in {[img |-> r, dst |-> << >>] : r \in NamedRecords}
    /\ pc = "name"
    /\ db = << >>
    /\ newdb = << >>
    /\ di = 1
    /\ fi = 1
    /\ ct = 0
    /\ job = NoJob
    /\ abandoned = {}
    /\ bi = 0
    /\ todo = << >>
    /\ copies = << >>
    /\ submitted = << >>
    /\ events = << >>

\* dst = _name(config, img)
Name ==
    /\ pc = "name"
    /\ probe' = [probe EXCEPT !.dst = _name(config, probe.img, tz)]
    /\ pc' = "named"
    /\ UNCHANGED <<config, tz, tree, outfiles, store, run, db, newdb, di, fi,
                   ct, job, abandoned, bi, todo, copies, submitted, events,
                   faults, history>>

SpecName == InitName /\ [][Name]_vars

\* the calendar date of a day number, for the days of the model, as
\* <<%Y, %m, %B, %d>>
DateOfDay(day) ==
    CASE day = 0     -> << <<"1","9","7","0">>, <<"0","1">>,
                           <<"J","a","n","u","a","r","y">>, <<"0","1">> >>
      [] day = 11016 -> << <<"2","0","0","0">>, <<"0","2">>,
                           <<"F","e","b","r","u","a","r","y">>, <<"2","9">> >>
      [] day = 19480 -> << <<"2","0","2","3">>, <<"0","5">>,
                           <<"M","a","y">>, <<"0","3">> >>
      [] day = 19481 -> << <<"2","0","2","3">>, <<"0","5">>,
                           <<"M","a","y">>, <<"0","4">> >>
      [] day = 19482 -> << <<"2","0","2","3">>, <<"0","5">>,
                           <<"M","a","y">>, <<"0","5">> >>

\* stem and extension of the files of the model
StemOf(p) ==
    CASE p = InputA \o <<"/", "i", "m", "g">> \o Jpg -> <<"i", "m", "g">>
      [] p = InputA \o <<"/", "s", "/", "a", ".", "t", "a", "r", ".", "g", "z">>
           -> <<"a", ".", "t", "a", "r">>
      [] p = InputB \o <<"/", ".", "h", "i", "d", "d", "e", "n">>
           -> <<".", "h", "i", "d", "d", "e", "n">>

ExtOf(p) ==
    CASE p = InputA \o <<"/", "i", "m", "g">> \o Jpg -> Jpg
      [] p = InputA \o <<"/", "s", "/", "a", ".", "t", "a", "r", ".", "g", "z">>
           -> <<".", "g", "z">>
      [] p = InputB \o <<"/", ".", "h", "i", "d", "d", "e", "n">> -> << >>

\* width or height in decimal, for the resolutions of the model
Decimal(n) == IF n = 800 THEN <<"8", "0", "0">> ELSE <<"6", "0", "0">>

\* the template of the configuration with the local date of the record,
\* {filename}, {resx} and {resy} written out
Expanded ==
    LET date == DateOfDay((probe.img.ts + tz) \div 86400)
        stem == StemOf(probe.img.f)
        resx == Decimal(probe.img.res[1])
        resy == Decimal(probe.img.res[2])
    IN IF config.file_naming = DefaultNaming
       THEN date[1] \o <<"/">> \o date[3] \o <<"/">> \o date[4] \o <<"_">>
            \o stem \o <<"_">> \o resy
       ELSE IF config.file_naming = <<"%","Y","-","%","m","-","%","d">>
       THEN date[1] \o <<"-">> \o date[2] \o <<"-">> \o date[4]
       ELSE resx \o <<"x">> \o resy \o <<"_">> \o stem

\* C10: the destination is the output root, "/", the template after
\* local-time formatting of the record's timestamp and substitution of
\* {filename} by the stem of the source file name, {resx} by the width and
\* {resy} by the height, then the extension of the source file.  With the
\* template "%Y/%B/%d_{filename}_{resy}", source img.jpg, a timestamp on
\* 2023-05-04 local time and resolution (800, 600) it ends in
\* 2023/May/04_img_600.jpg.
C10_NameOfRecord ==
    pc = "named" =>
        /\ probe.dst = config.output \o <<"/">> \o Expanded \o ExtOf(probe.img.f)
        /\ (/\ config.file_naming = DefaultNaming
            /\ Basename(probe.img.f) = <<"i", "m", "g">> \o Jpg
            /\ probe.img.res = <<800, 600>>
            /\ probe.img.ts + tz >= May4
            /\ probe.img.ts + tz < May4 + 86400)
              => EndsWith(probe.dst,
                          <<"2","0","2","3","/","M","a","y","/","0","4","_",
                            "i","m","g","_","6","0","0",".","j","p","g">>)

\* the example of the claim was named, in a zone that is not UTC, at a time
\* whose UTC date is 2023-05-03
C10_Witness ==
    /\ pc = "named"
    /\ config.file_naming = DefaultNaming
    /\ Basename(probe.img.f) = <<"i", "m", "g">> \o Jpg
    /\ probe.img.res = <<800, 600>>
    /\ probe.img.ts + tz >= May4
    /\ probe.img.ts + tz < May4 + 86400
    /\ probe.img.ts < May4

(***************************************************************************)
(* Configuration errors                                                    *)
(***************************************************************************)

\* the configuration main refuses: no input directory or no output
\* directory
ConfigError == Len(config.inputs) = 0 \/ config.output = << >>

\* C11: a configuration error (an empty list of input directories or an
\* empty output directory) is fatal before the main flow: the invocation
\* ends with the error and none of load_db, discover, migrate, save_db,
\* save_config is executed, so that no file is hashed, copied, moved or
\* written.
C11_ConfigErrorBeforeMainFlow ==
    ConfigError =>
        /\ pc \in {"check_config", "exit1"}
        /\ run = 1
        /\ db = << >>
        /\ newdb = << >>
        /\ submitted = << >>
        /\ copies = << >>
        /\ events = << >>
        /\ job = NoJob
        /\ outfiles = {}
        /\ tree = history[1].tree
        /\ \A r \in DOMAIN store : store[r] = NoFile

C11_Witness == ConfigError /\ pc = "exit1"

(***************************************************************************)
(* discover on its own: main from load_db, with or without a stored index, *)
(* to the end of discover                                                  *)
(***************************************************************************)

\* the index a previous invocation under the "none" policy stored: a
\* record of the first file of InputA at its source path, and a second
\* bucket
StoredIndex ==
    <<[h |-> "h1", imgs |-> <<[f |-> FileA(1, "image").f, res |-> <<100, 75>>,
                              ts |-> Noon - 86400]>>],
      SecondBucket>>

InitDiscover ==
    /\ config \in {Config("highest_resolution", FALSE,
                           <<InputA, InputMissing, InputB>>, OutRoot, t) :
                        t \in {1, 2}}
    /\ tz = 0
    /\ tree \in Trees
    /\ outfiles = {}
    /\ store \in {(OutRoot :> s) @@ (OtherRoot :> NoFile) :
                      s \in {NoFile, Dump(StoredIndex, 1)}}
    /\ run = 1
    /\ faults = 0
    /\ history = <<[tree |-> tree, ok |-> FALSE, clean |-> FALSE]>>
    /\ probe = << >>
    /\ pc = "load_db"
    /\ db = << >>
    /\ newdb = << >>
    /\ di = 1
    /\ fi = 1
    /\ ct = 0
    /\ job = NoJob
    /\ abandoned = {}
    /\ bi = 0
    /\ todo = << >>
    /\ copies = << >>
    /\ submitted = << >>
    /\ events = << >>

NextDiscover ==
    \/ LoadDb
    \/ HashSubmit
    \/ HashResult
    \/ HashRaise
    \/ HashTimeout
    \/ LateComplete
    \/ DiscoverDone

SpecDiscover == InitDiscover /\ [][NextDiscover]_vars

(***************************************************************************)
(* Properties of discover                                                  *)
(***************************************************************************)

\* the index load_db returned to this invocation
Loaded ==
    IF events # << >> /\ events[1].ev = "on_load_db"
    THEN events[1].args[1] ELSE << >>

\* the positions of the hashed events for the file at path f
HashedEvents(f) ==
    {i \in 1..Len(events) :
        events[i].ev = "on_hashed" /\ events[i].args[2] = f}

\* the positions of the hashing warnings for the file at path f
HashWarnings(f) ==
    {i \in 1..Len(events) :
        events[i].ev = "warning" /\ events[i].args = <<"hash", f>>}

\* the number of records of list imgs with path f
RECURSIVE CountInList(_, _)
CountInList(imgs, f) ==
    IF imgs = << >> THEN 0
    ELSE (IF Head(imgs).f = f THEN 1 ELSE 0) + CountInList(Tail(imgs), f)

\* the number of records of index d with path f
RECURSIVE CountPath(_, _)
CountPath(d, f) ==
    IF d = << >> THEN 0
    ELSE CountInList(Head(d).imgs, f) + CountPath(Tail(d), f)

\* the wait for the current hashing job ends in this step by its timeout:
\* the job is left to the pool
WaitTimesOut == job.kind = "hash" /\ job \in abandoned'

\* what C12 requires of every file whose wait timed out
TimedOutFilesSkipped ==
    \A k \in 1..Len(submitted) :
        (submitted[k].kind = "hash" /\ TimedOut(submitted[k].a)) =>
            /\ Cardinality(HashWarnings(submitted[k].a)) = 1
            /\ HashedEvents(submitted[k].a) = {}
            /\ CountPath(db, submitted[k].a)
                   = CountPath(Loaded, submitted[k].a)

\* C12: when the wait for a hashing job times out, the step reports one
\* warning for that file and leaves the index as it was; from then on the
\* file has exactly one warning, no hashed event, and the index holds no
\* record of it beyond those that were loaded.
C12_TimeoutWarnsOnceAndSkips ==
    [][/\ WaitTimesOut =>
            /\ events' = Append(events, Event("warning", <<"hash", job.a>>))
            /\ db' = db
       /\ TimedOutFilesSkipped']_vars

\* a file with a stored record timed out, a later file was hashed, and
\* discover is over
C12_Witness ==
    /\ pc = "migrate"
    /\ TimedOut(FileA(1, "image").f)
    /\ CountPath(Loaded, FileA(1, "image").f) = 1
    /\ HashedEvents(FileA(2, "image").f) # {}

\* the index after the hashed events from position i on were applied to d:
\* each appends its record to the bucket of its hash
RECURSIVE Replay(_, _)
Replay(d, i) ==
    IF i > Len(events) THEN d
    ELSE IF events[i].ev = "on_hashed"
    THEN LET a == events[i].args IN
         Replay(Put(d, a[1], Append(Get(d, a[1]),
                                    [f |-> a[2], res |-> a[3], ts |-> a[4]])),
                i + 1)
    ELSE Replay(d, i + 1)

\* the hashed event at position i carries what _hash_img returns for the
\* file at the event's path
OwnResult(i) ==
    LET a == events[i].args
        r == _hash_img(FileAt(a[2])) IN
    /\ ~r.raised
    /\ a[1] = r.h
    /\ a[3] = r.res
    /\ a[4] = r.ts

\* C13: a hashing job that was abandoned on timeout and ends later in the
\* pool never changes the index: whatever the order of late completions
\* and later submissions, the index is the loaded index followed by one
\* record per hashed event, every hashed event is for a file whose wait
\* did not time out, and it carries that file's own result.
C13_LateResultNeverReachesIndex ==
    pc \in {"discover", "migrate"} =>
        /\ db = Replay(Loaded, 1)
        /\ \A i \in 1..Len(events) :
              events[i].ev = "on_hashed" =>
                  /\ ~TimedOut(events[i].args[2])
                  /\ OwnResult(i)

\* with two workers: the first file timed out, its job ended in the pool
\* after the second file was submitted, and the second file was hashed
C13_Witness ==
    /\ pc = "discover"
    /\ config.threads = 2
    /\ TimedOut(FileA(1, "image").f)
    /\ abandoned = {}
    /\ HashedEvents(FileA(2, "image").f) # {}
    /\ CountPath(db, FileA(1, "image").f) = CountPath(Loaded, FileA(1, "image").f)

\* sequence s is an initial part of sequence t
IsPrefix(s, t) == Len(s) <= Len(t) /\ SubSeq(t, 1, Len(s)) = s

\* the number of records of index d
RECURSIVE Records(_)
Records(d) == IF d = << >> THEN 0 ELSE Len(Head(d).imgs) + Records(Tail(d))

\* the wait for the current hashing job ends in this step with the result
\* of an image: the file was successfully hashed
HashSucceeds ==
    /\ pc = "discover"
    /\ job.kind = "hash"
    /\ job'.kind = "none"
    /\ job \notin abandoned'
    /\ ~_hash_img(FileAt(job.a)).raised
    /\ _hash_img(FileAt(job.a)).h # ""

\* C14: during discover the index only grows: every key and every record
\* present before a step is present after it at the same position; a
\* successfully hashed file adds exactly one record, at the end of the
\* bucket of its hash, and any other step leaves the index as it was, so
\* that a bucket lists the loaded records first and then the discovered
\* ones in discovery order.
C14_IndexOnlyGrows ==
    [][pc = "discover" =>
         /\ Len(db) <= Len(db')
         /\ \A i \in 1..Len(db) :
               /\ db'[i].h = db[i].h
               /\ IsPrefix(db[i].imgs, db'[i].imgs)
         /\ IF HashSucceeds
            THEN LET r == _hash_img(FileAt(job.a)) IN
                 /\ Records(db') = Records(db) + 1
                 /\ Get(db', r.h)
                       = Append(Get(db, r.h),
                                [f |-> job.a, res |-> r.res, ts |-> r.ts])
            ELSE db' = db]_vars

\* a bucket with the loaded record first, then the two files of InputA in
\* the order of the walk
C14_Witness ==
    /\ Loaded # << >>
    /\ Len(Get(db, "h1")) = 3
    /\ Get(db, "h1")[1] = Get(Loaded, "h1")[1]
    /\ Get(db, "h1")[2].f = FileA(1, "image").f
    /\ Get(db, "h1")[3].f = FileA(2, "image").f

\* the positions up to i of the hashed events
HashedUpTo(i) == {k \in 1..i : events[k].ev = "on_hashed"}

\* the position in submitted of the hashing job of the file at path f
SubmissionOf(f) ==
    CHOOSE k \in 1..Len(submitted) :
        submitted[k].kind = "hash" /\ submitted[k].a = f

\* the wait for the job at position k of submitted is over
WaitOver(k) == k < Len(submitted) \/ job.kind = "none"

\* exactly one hashed event per successfully hashed file, in submission
\* order
OneHashedEventPerFile ==
    /\ \A k \in 1..Len(submitted) :
          (/\ submitted[k].kind = "hash"
           /\ WaitOver(k)
           /\ ~TimedOut(submitted[k].a)
           /\ ~_hash_img(FileAt(submitted[k].a)).raised
           /\ _hash_img(FileAt(submitted[k].a)).h # "")
              => Cardinality(HashedEvents(submitted[k].a)) = 1
    /\ \A i \in 1..Len(events) : \A j \in (i + 1)..Len(events) :
          (events[i].ev = "on_hashed" /\ events[j].ev = "on_hashed")
              => SubmissionOf(events[i].args[2]) < SubmissionOf(events[j].args[2])

\* the dup of each hashed event is the size of the bucket of its hash right
\* after the append: the loaded records and the hashed ones so far
DupIsBucketSize ==
    \A i \in 1..Len(events) :
        events[i].ev = "on_hashed" =>
            events[i].args[6]
              = Len(Get(Loaded, events[i].args[1]))
                + Cardinality({k \in HashedUpTo(i) :
                                  events[k].args[1] = events[i].args[1]})

\* C18: discover emits exactly one hashed event per successfully hashed
\* file, in submission order; the running count of the event is the number
\* of files successfully hashed so far in this discover call, across all
\* input directories, and its dup is the size of the bucket of its hash
\* right after the append.
C18_RunningCountAcrossDirectories ==
    pc \in {"discover", "migrate"} =>
        /\ OneHashedEventPerFile
        /\ DupIsBucketSize
        /\ \A i \in 1..Len(events) :
              events[i].ev = "on_hashed" =>
                  events[i].args[5] = Cardinality(HashedUpTo(i))

(***************************************************************************)
(* Properties of the index migrate returns and of its copy actions         *)
(***************************************************************************)

\* record kept is record img of the input bucket, at its own path or at the
\* destination _name gives it
StemsFrom(kept, img) ==
    /\ kept.res = img.res
    /\ kept.ts = img.ts
    /\ kept.f \in {img.f, _name(config, img, tz)}

\* C15: the index migrate returns has exactly the hashes of the input
\* index, each once, and under every policy other than none each of its
\* buckets holds exactly one record, which is one of the records of the
\* input bucket, its path possibly replaced by the destination path.
C15_ResolvedIndexOneRecordPerHash ==
    pc = "save_db" =>
        /\ Len(db) = Len(probe)
        /\ Cardinality(Keys(db)) = Len(db)
        /\ Keys(db) = Keys(probe)
        /\ config.duplicate_handling # "none" =>
              \A h \in Keys(probe) :
                  /\ Len(Get(db, h)) = 1
                  /\ \E i \in 1..Len(Get(probe, h)) :
                        StemsFrom(Get(db, h)[1], Get(probe, h)[i])

\* migrate returned under a policy other than none from a bucket of three
\* records at three paths, and the kept record is at a destination path
C15_Witness ==
    /\ pc = "save_db"
    /\ config.duplicate_handling # "none"
    /\ Len(Get(probe, "h1")) = 3
    /\ Cardinality({Get(probe, "h1")[i].f : i \in 1..3}) = 3
    /\ \A i \in 1..3 : Get(db, "h1")[1].f # Get(probe, "h1")[i].f

\* the index migrate is building, and the one it returned once it is over
ResolvedIndex == IF pc = "migrate" THEN newdb ELSE db

\* a warning of kind k ("copy_failed", "copy_timeout") names the pair of
\* copy action c
CopyWarned(k, c) ==
    \E i \in 1..Len(events) :
        events[i].ev = "warning" /\ events[i].args = <<k, c.src, c.dst>>

\* C16: under a policy other than none, for every copy action _resolve
\* emitted, the resolved index records the selected record of the action's
\* bucket at the action's destination path, with the resolution and the
\* timestamp of the selected record, from the moment the action is emitted
\* to the return of migrate, whether the copy succeeds, fails or times
\* out.
C16_IndexRecordsDestination ==
    (config.duplicate_handling # "none" /\ pc \in {"migrate", "save_db"}) =>
        \A k \in 1..Len(copies) :
            LET imgs == Get(probe, copies[k].h)
                i    == FirstExtremum(config.duplicate_handling, imgs)
            IN /\ copies[k].src = imgs[i].f
               /\ Get(ResolvedIndex, copies[k].h)
                     = <<[f   |-> copies[k].dst,
                          res |-> imgs[i].res,
                          ts  |-> imgs[i].ts]>>

\* migrate returned after the copy of the first bucket failed and the copy
\* of the second timed out; no file is at the first destination
C16_Witness ==
    /\ pc = "save_db"
    /\ config.duplicate_handling # "none"
    /\ Len(copies) = 2
    /\ CopyWarned("copy_failed", copies[1])
    /\ CopyWarned("copy_timeout", copies[2])
    /\ copies[1].dst # copies[2].dst
    /\ copies[1].dst \notin outfiles
    /\ Get(db, copies[1].h)[1].f = copies[1].dst

\* the [src, dst] pairs of the copy jobs submitted so far, in order
RECURSIVE SubmittedPairs(_)
SubmittedPairs(i) ==
    IF i > Len(submitted) THEN << >>
    ELSE IF submitted[i].kind = "copy"
         THEN <<[src |-> submitted[i].a, dst |-> submitted[i].b]>>
              \o SubmittedPairs(i + 1)
    ELSE SubmittedPairs(i + 1)

\* the [src, dst] pairs _resolve returned so far, in order
EmittedPairs == [k \in 1..Len(copies) |-> [src |-> copies[k].src, dst |-> copies[k].dst]]

\* an event reports the outcome of the copy of src to dst
Reported(src, dst) ==
    \E i \in 1..Len(events) :
        \/ events[i].ev = "on_copied" /\ events[i].args = <<src, dst>>
        \/ /\ events[i].ev = "warning"
           /\ events[i].args \in {<<"copy_failed", src, dst>>,
                                   <<"copy_timeout", src, dst>>}

\* C17: a copy action that times out or fails is reported as a warning, is
\* never submitted again and does not stop migrate: the copy jobs submitted
\* so far followed by the pairs still to submit are exactly the pairs
\* _resolve returned, each once and in order; every wait that is over has
\* its on_copied or its warning; no exception leaves migrate, and when
\* it returns every pair was submitted and the last event is on_migrated.
C17_FailedCopyReportedNotRetried ==
    /\ pc \in {"migrate", "save_db"}
    /\ EmittedPairs = SubmittedPairs(1) \o todo
    /\ \A k \in 1..Len(submitted) :
          (submitted[k].kind = "copy" /\ WaitOver(k))
              => Reported(submitted[k].a, submitted[k].b)
    /\ pc = "save_db" =>
          /\ todo = << >>
          /\ EmittedPairs = SubmittedPairs(1)
          /\ events[Len(events)].ev = "on_migrated"

\* migrate returned under policy none: a copy of the first bucket timed
\* out, another failed, and the copy of the second bucket, submitted after
\* them, succeeded
C17_Witness ==
    /\ pc = "save_db"
    /\ Len(copies) >= 3
    /\ \E i, j \in 1..Len(events) :
          /\ i # j
          /\ events[i].ev = "warning" /\ events[i].args[1] = "copy_timeout"
          /\ events[j].ev = "warning" /\ events[j].args[1] = "copy_failed"
          /\ \E k \in 1..Len(events) :
                /\ k > i
                /\ k > j
                /\ events[k].ev = "on_copied"
                /\ events[k].args = <<copies[Len(copies)].src, copies[Len(copies)].dst>>
                /\ copies[Len(copies)].h = "h2"

\* C19: within one migrate call no two copy actions with different sources
\* have the same destination: records selected from different buckets, and
\* under policy none different records of one bucket, are never written to
\* the same destination path.
C19_DestinationsDistinct ==
    \A i \in 1..Len(copies) : \A j \in 1..Len(copies) :
        copies[i].src # copies[j].src => copies[i].dst # copies[j].dst

(***************************************************************************)
(* One job at a time                                                       *)
(***************************************************************************)

\* C20: in discover and in migrate a job is submitted only when no job is
\* being waited for, that is after the result of the previous job was
\* received or its wait timed out; the job being waited for is the last
\* one submitted and is not abandoned, so that at most one job that is not
\* abandoned is outstanding whatever the number of workers, and during
\* discover the index holds the loaded records and one record per hashed
\* event: no append is lost.
C20_OneJobAtATime ==
    [][/\ Len(submitted') > Len(submitted) =>
            /\ job.kind = "none"
            /\ Len(submitted') = Len(submitted) + 1
       /\ job'.kind # "none" =>
            /\ job' = submitted'[Len(submitted')]
            /\ job' \notin abandoned'
       /\ pc' = "discover" =>
            Records(db') = Records(Loaded') + Cardinality(HashedUpTo(Len(events))')]_vars

\* with two workers, the job of the third file is waited for while the job
\* of the first, abandoned on timeout, still runs in the pool, and the
\* second file was hashed and appended in between
C20_Witness ==
    /\ config.threads = 2
    /\ pc = "discover"
    /\ job.kind = "hash"
    /\ job.a = FileB("image").f
    /\ \E j \in abandoned : j.a = FileA(1, "image").f
    /\ HashedEvents(FileA(2, "image").f) # {}
    /\ CountPath(db, FileA(2, "image").f) = 1

====
